---------------------------- MODULE Spec2Model ----------------------------
(* A state-machine model of AutoProf's isophote fitting                    *)
(* (autoprofutils/Isophote_Fit.py): Isophote_Fit_FFT_Robust and            *)
(* Isophote_Fit_FFT_mean, which differ only in the loss function and in    *)
(* the flux statistic of the radius-set generation.                        *)
(*                                                                         *)
(* Numbers.  Radii are fixed-point integers, RUnit units per pixel; the    *)
(* growth-rate option ap_scale is an integer number of 1/ScaleDen; every   *)
(* product is rounded down, as a finite-precision product is rounded.      *)
(* Python indices 0..n-1 are 1..n here.                                    *)
EXTENDS Integers, Sequences, FiniteSets, TLC

VARIABLES
    variant,        \* "Robust" | "mean": which of the two fit functions runs
    IMG,            \* the image, as far as the radius-set generation reads it
    results,        \* the caller's results dictionary
    options,        \* the caller's options dictionary
    pc,             \* the position in the function body
    shrink,         \* relaxation attempt counter
    sample_radii,   \* the radius set
    ellip,          \* ellipticity per radius, in thousandths
    pa,             \* position angle per radius, PiUnits units to pi
    count,          \* outer iterations started
    count_nochange, \* radius steps since the last committed perturbation
    I,              \* the shuffled order of the radius indices
    k,              \* position of the for loop in I
    perturbations,  \* the candidate pool of the last radius step
    loss_calls,     \* the sampled ring and reg_scale of each loss call of that step
    best,           \* np.argmin of the pool's losses
    use_center,     \* the copy of results['center'] the loss calls sample around
    ci,             \* iterations done of the collapsed-center scan
    smooth_calls,   \* the arrays _ellip_smooth and _pa_smooth were called with
    smooth_ellip,   \* the smoothed ellipticity profile
    smooth_pa,      \* the smoothed position-angle profile
    ellip_err,      \* ellipticity error per radius
    pa_err,         \* position-angle error per radius
    res,            \* the returned pair: IMG and the results update
    pipeline,       \* the walk of the tree pipeline of test_tree_config.py
    psf,            \* a call of PSF_IRAF: its options, locals and outcome
    axial           \* a call of Axial_Profiles: its inputs and radial grid R

vars == <<variant, IMG, results, options, pc, shrink, sample_radii, ellip, pa,
          count, count_nochange, I, k, perturbations, loss_calls, best,
          use_center, ci, smooth_calls, smooth_ellip, smooth_pa, ellip_err,
          pa_err, res, pipeline, psf, axial>>

inputs == <<variant, IMG, results, options>>
radii == <<shrink, sample_radii>>
fit == <<ellip, pa, count, count_nochange, I, k, perturbations, loss_calls, best>>
post == <<ci, smooth_calls, smooth_ellip, smooth_pa, ellip_err, pa_err, res>>
steps == <<psf, axial>>

----------------------------------------------------------------------------
(* Program constants.                                                      *)
MaxShrink == 5
MinRadii == 15
DefaultScale == 20
ScaleDen == 100
RUnit == 100

(* Bounds of the model.                                                    *)
MaxPsf == 2
MaxRadii == 60

----------------------------------------------------------------------------
(* Radius-set generation.                                                  *)

Last(s) == s[Len(s)]

\* scale = options['ap_scale'] if 'ap_scale' in options else 0.2
Scale(opt) == IF "ap_scale" \in opt.keys THEN opt.ap_scale ELSE DefaultScale

\* 3*results['psf fwhm']/2
SeedRadius(rs) == (3 * rs.psf_fwhm) \div 2

\* max(IMG.shape)/2
HalfSize(img) == img.half

\* not (np.median(isovals) < fit_limit*noise)  [np.mean in the mean variant]:
\* the sampled flux at radius R reaches the noise threshold.  The image is
\* read through its flux profile: bright on the radii lo <= R < cut.
Bright(img, R) == img.lo <= R /\ R < img.cut

GrowNoGrowth(R, scale, shr) == R

\* sample_radii[-1]*(1.+scale/(1.+shrink))
Grow(R, scale, shr) == R + ((R * scale) \div (ScaleDen * (1 + shr)))

NewAttempt ==
    /\ pc = "attempt"
    /\ shrink < MaxShrink
    /\ sample_radii' = <<SeedRadius(results)>>
    /\ pc' = "grow"
    /\ UNCHANGED <<post, use_center, inputs, pipeline, steps, shrink, fit>>

GrowRadius ==
    /\ pc = "grow"
    /\ Last(sample_radii) < HalfSize(IMG)
    /\ Bright(IMG, Last(sample_radii))
    /\ Len(sample_radii) < MaxRadii
    /\ sample_radii' = Append(sample_radii,
                              Grow(Last(sample_radii), Scale(options), shrink))
    /\ UNCHANGED <<post, use_center, inputs, pipeline, steps, pc, shrink, fit>>

EndAttemptWrongLimit ==
    /\ pc = "grow"
    /\ ~(Last(sample_radii) < HalfSize(IMG) /\ Bright(IMG, Last(sample_radii)))
    /\ IF Len(sample_radii) < MaxShrink
         THEN shrink' = shrink + 1 /\ pc' = "attempt"
         ELSE shrink' = shrink /\ pc' = "initialized"
    /\ UNCHANGED <<post, use_center, inputs, pipeline, steps, sample_radii, fit>>

EndAttempt ==
    /\ pc = "grow"
    /\ ~(Last(sample_radii) < HalfSize(IMG) /\ Bright(IMG, Last(sample_radii)))
    /\ IF Len(sample_radii) < MinRadii
         THEN shrink' = shrink + 1 /\ pc' = "attempt"
         ELSE shrink' = shrink /\ pc' = "initialized"
    /\ UNCHANGED <<post, use_center, inputs, pipeline, steps, sample_radii, fit>>

InitFailed ==
    /\ pc = "attempt"
    /\ ~(shrink < MaxShrink)
    /\ shrink >= MaxShrink
    /\ pc' = "raised"
    /\ UNCHANGED <<post, use_center, inputs, pipeline, steps, radii, fit>>

----------------------------------------------------------------------------
(* The stochastic fitting loop.                                            *)

MaxCount == 300
NoChangeFactor == 3
N_perturb == 5
RegStart == 4
DefaultRegScale == 1

(* pi in angle units, and the largest ellipticity-space lattice point the  *)
(* random draws are taken to reach.                                        *)
PiUnits == 2
XMax == 1

Abs(x) == IF x < 0 THEN 0 - x ELSE x
Min2(a, b) == IF a <= b THEN a ELSE b

\* _x_to_eps (SharedFunctions): the bounded, increasing map from the
\* unbounded fitting coordinate x to an ellipticity, here the sigmoid
\* 0.5 + 0.45 x/(1+|x|), in thousandths.
x_to_eps(x) == 500 + ((450 * x) \div (1 + Abs(x)))

\* _inv_x_to_eps (SharedFunctions): its inverse, rounded to the nearest
\* lattice point.
inv_x_to_eps(e) ==
    IF e >= 500
      THEN (2 * (e - 500) + (950 - e)) \div (2 * (950 - e))
      ELSE 0 - ((2 * (500 - e) + (e - 50)) \div (2 * (e - 50)))

\* Angle_TwoAngles (SharedFunctions): the angle between the directions a1
\* and a2, in [0, pi]; the arguments are doubled position angles, so a full
\* turn is 2*PiUnits.
Angle_TwoAngles(a1, a2) ==
    LET d == Abs(a1 - a2) % (2 * PiUnits)
    IN  Min2(d, 2 * PiUnits - d)

\* The (2*0.2) of the Robust loss and the (2*0.3) of the mean loss, in tenths.
Bandwidth(v) == IF v = "Robust" THEN 4 ELSE 6

\* abs((E[i] - E[j])/(1 - E[j])) + abs(Angle_TwoAngles(2*PA[i], 2*PA[j])/(2*0.2)),
\* in thousandths.
RegTerm(v, E, PA, i, j) ==
      ((Abs(E[i] - E[j]) * 1000) \div (1000 - E[j]))
    + ((Angle_TwoAngles(2 * PA[i], 2 * PA[j]) * 31416) \div (PiUnits * Bandwidth(v)))

\* reg_loss of both loss functions, in thousandths.
RegLoss(v, R, E, PA, i) ==
      (IF i < Len(R) THEN RegTerm(v, E, PA, i, i + 1) ELSE 0)
    + (IF i > 1 THEN RegTerm(v, E, PA, i, i - 1) ELSE 0)

(* A loss value: a number (thousandths of the f2 unit), inf or nan.        *)
Num(x) == [kind |-> "num", v |-> x]
Inf == [kind |-> "inf", v |-> 0]
NaN == [kind |-> "nan", v |-> 0]

(* A sampled ring, as _iso_extract returns it: "finite" samples with the   *)
(* normalised second Fourier amplitude f2, samples holding a NaN ("nan"),  *)
(* or no sample at all ("empty").                                          *)
Ring(kd, f) == [kind |-> kd, f2 |-> f]

\* fft of an empty array raises ValueError (both loss functions).
LossRaises(ring) == ring.kind = "empty"

\* _FFT_Robust_loss: nothing is tested; NaN samples give a NaN amplitude and
\* a NaN loss.
FFT_Robust_loss(ring, R, E, PA, i, reg_scale) ==
    IF ring.kind = "nan"
      THEN NaN
      ELSE Num(ring.f2 * (1000 + RegLoss("Robust", R, E, PA, i) * reg_scale))

FFT_mean_lossNoGuard(ring, R, E, PA, i, reg_scale) ==
    IF ring.kind = "nan"
      THEN NaN
      ELSE Num(ring.f2 * (1000 + RegLoss("mean", R, E, PA, i) * reg_scale))

\* _FFT_mean_loss: returns np.inf if not np.all(np.isfinite(isovals)).
FFT_mean_loss(ring, R, E, PA, i, reg_scale) ==
    IF ring.kind = "nan"
      THEN Inf
      ELSE Num(ring.f2 * (1000 + RegLoss("mean", R, E, PA, i) * reg_scale))

Loss(v, ring, R, E, PA, i, reg_scale) ==
    IF v = "Robust" THEN FFT_Robust_loss(ring, R, E, PA, i, reg_scale)
                    ELSE FFT_mean_loss(ring, R, E, PA, i, reg_scale)

\* a < b on loss values, as IEEE compares: false whenever a NaN is involved.
LossLess(a, b) ==
    /\ a.kind # "nan" /\ b.kind # "nan"
    /\ \/ a.kind = "num" /\ b.kind = "inf"
       \/ a.kind = "num" /\ b.kind = "num" /\ a.v < b.v

ArgMinLast(L) ==
    IF \E j \in DOMAIN L : L[j].kind = "nan"
      THEN CHOOSE j \in DOMAIN L :
             L[j].kind = "nan" /\ \A m \in DOMAIN L : L[m].kind = "nan" => m <= j
      ELSE CHOOSE j \in DOMAIN L :
             /\ \A m \in DOMAIN L : ~LossLess(L[m], L[j])
             /\ \A m \in DOMAIN L : m > j => LossLess(L[j], L[m])

\* np.argmin: the first NaN if there is one, else the first occurrence of
\* the minimum.
ArgMin(L) ==
    IF \E j \in DOMAIN L : L[j].kind = "nan"
      THEN CHOOSE j \in DOMAIN L :
             L[j].kind = "nan" /\ \A m \in DOMAIN L : L[m].kind = "nan" => j <= m
      ELSE CHOOSE j \in DOMAIN L :
             /\ \A m \in DOMAIN L : ~LossLess(L[m], L[j])
             /\ \A m \in DOMAIN L : m < j => LossLess(L[j], L[m])

PerturbsEllipShifted(c) == c % 3 \in {1, 2}

\* count % 3 in [0,1]  /  count % 3 in [1,2]
PerturbsEllip(c) == c % 3 \in {0, 1}
PerturbsPa(c) == c % 3 \in {1, 2}

\* regularize_scale = options['ap_regularize_scale'] if ... else 1.
regularize_scale(opt) ==
    IF "ap_regularize_scale" \in opt.keys THEN opt.ap_regularize_scale
                                          ELSE DefaultRegScale

RegScaleArgEarly(opt, c) == IF c >= RegStart THEN regularize_scale(opt) ELSE 0

\* reg_scale = regularize_scale if count > 4 else 0
RegScaleArg(opt, c) == IF c > RegStart THEN regularize_scale(opt) ELSE 0

CandidateNoWrap(E, PA, c, i, n, d) ==
    IF n = 0 THEN [ellip |-> E, pa |-> PA]
    ELSE [ellip |-> IF PerturbsEllip(c)
                      THEN [E EXCEPT ![i] = x_to_eps(inv_x_to_eps(E[i]) + d.de)]
                      ELSE E,
          pa    |-> IF PerturbsPa(c) THEN [PA EXCEPT ![i] = PA[i] + d.dpa] ELSE PA]

CandidateOfNeighbour(E, PA, c, i, n, d) ==
    IF n = 0 THEN [ellip |-> E, pa |-> PA]
    ELSE LET m == IF n = N_perturb /\ i < Len(E) THEN i + 1 ELSE i
         IN  [ellip |-> IF PerturbsEllip(c)
                          THEN [E EXCEPT ![m] = x_to_eps(inv_x_to_eps(E[m]) + d.de)]
                          ELSE E,
              pa    |-> IF PerturbsPa(c)
                          THEN [PA EXCEPT ![m] = (PA[m] + d.dpa) % PiUnits]
                          ELSE PA]

\* Candidate n of the pool of radius index i: n = 0 is copy(ellip), copy(pa);
\* n > 0 is a copy perturbed at i by the draw d = [de, dpa].
Candidate(E, PA, c, i, n, d) ==
    IF n = 0 THEN [ellip |-> E, pa |-> PA]
    ELSE [ellip |-> IF PerturbsEllip(c)
                      THEN [E EXCEPT ![i] = x_to_eps(inv_x_to_eps(E[i]) + d.de)]
                      ELSE E,
          pa    |-> IF PerturbsPa(c)
                      THEN [PA EXCEPT ![i] = (PA[i] + d.dpa) % PiUnits]
                      ELSE PA]

\* The pool of one radius step: perturbations, as the for n loop leaves it.
Pool(v, R, E, PA, opt, c, i, draws, rings) ==
    [n \in 0..N_perturb |->
        LET cand == Candidate(E, PA, c, i, n, IF n = 0 THEN draws[1] ELSE draws[n])
        IN  [ellip |-> cand.ellip, pa |-> cand.pa,
             loss |-> Loss(v, rings[n], R, cand.ellip, cand.pa, i,
                           RegScaleArg(opt, c))]]

NoChangeAfterNoReset(b, cn) == cn + 1

\* count_nochange = 0 if best > 0, else count_nochange += 1
NoChangeAfter(b, cn) == IF b > 0 THEN 0 ELSE cn + 1

LossCenterFollowsRadius(uc, i) == [x |-> uc.x + i, y |-> uc.y]

\* The C argument of every loss call: use_center, whatever the radius index.
LossCenter(uc, i) == uc

LoopConditionOneSweep ==
    count < MaxCount /\ count_nochange < Len(sample_radii)

\* The while condition of the fitting loop.
LoopCondition ==
    count < MaxCount /\ count_nochange < NoChangeFactor * Len(sample_radii)

\* if shrink >= 5: raise ... is not taken; ellip, pa, count, count_nochange,
\* I are created.
StartFit ==
    /\ pc = "initialized"
    /\ ~(shrink >= MaxShrink)
    /\ ellip' = [j \in 1..Len(sample_radii) |-> results.init_ellip]
    /\ pa' = [j \in 1..Len(sample_radii) |-> results.init_pa]
    /\ count' = 0
    /\ count_nochange' = 0
    /\ use_center' = results.center
    /\ I' = [j \in 1..Len(sample_radii) |-> j]
    /\ pc' = "while"
    /\ UNCHANGED <<post, inputs, pipeline, steps, radii, k, perturbations, loss_calls, best>>

NextIterationNoCount(orders) ==
    /\ pc = "while"
    /\ LoopCondition
    /\ I' \in orders
    /\ k' = 1
    /\ pc' = "for"
    /\ UNCHANGED <<post, use_center, inputs, pipeline, steps, radii, ellip, pa, count, count_nochange,
                   perturbations, loss_calls, best>>

\* One pass of the while test that enters the body: count += 1 and
\* np.random.shuffle(I).
NextIteration(orders) ==
    /\ pc = "while"
    /\ LoopCondition
    /\ count' = count + 1
    /\ I' \in orders
    /\ k' = 1
    /\ pc' = "for"
    /\ UNCHANGED <<post, use_center, inputs, pipeline, steps, radii, ellip, pa, count_nochange, perturbations,
                   loss_calls, best>>

\* The body of "for i in I" for i = I[k]: the pool, argmin, commit or count.
RadiusStep(pools) ==
    /\ pc = "for"
    /\ \E inp \in pools :
         LET i == I[k]
             pool == Pool(variant, sample_radii, ellip, pa, options, count, i,
                          inp.draws, inp.rings)
             b == ArgMin([n \in 0..N_perturb |-> pool[n].loss])
         IN  /\ loss_calls' = [n \in 0..N_perturb |->
                                 [ring |-> inp.rings[n],
                                  C |-> LossCenter(use_center, i),
                                  reg_scale |-> RegScaleArg(options, count)]]
             /\ IF \E n \in 0..N_perturb : LossRaises(inp.rings[n])
                  THEN /\ pc' = "aborted"
                       /\ UNCHANGED <<ellip, pa, count_nochange, k,
                                      perturbations, best>>
                  ELSE /\ perturbations' = pool
                       /\ best' = b
                       /\ IF b > 0
                            THEN ellip' = pool[b].ellip /\ pa' = pool[b].pa
                            ELSE UNCHANGED <<ellip, pa>>
                       /\ count_nochange' = NoChangeAfter(b, count_nochange)
                       /\ k' = IF k = Len(I) THEN 1 ELSE k + 1
                       /\ pc' = IF k = Len(I) THEN "while" ELSE "for"
    /\ UNCHANGED <<post, use_center, inputs, pipeline, steps, radii, count, I>>

\* The while test fails: the loop is left.
ExitLoop ==
    /\ pc = "while"
    /\ ~LoopCondition
    /\ pc' = "fitted"
    /\ UNCHANGED <<post, use_center, inputs, pipeline, steps, radii, fit>>

----------------------------------------------------------------------------
(* After the loop: collapsed-center detection, smoothing, errors, return.  *)

CollapseScan == 5
ClampCount == 3
ErrWindow == 4

\* (_inv_x_to_eps(ellip[i]) - _inv_x_to_eps(ellip[i+1])) > 0.5; the fitting
\* coordinate is whole-numbered here, so the test is doubled.
Collapsed(E, i) == 2 * (inv_x_to_eps(E[i]) - inv_x_to_eps(E[i + 1])) > 1

FlattenBelow(A, i) == [j \in 1..Len(A) |-> IF j < i THEN A[i + 1] ELSE A[j]]

\* A[:i+1] = A[i+1] of the scan's iteration i (here 1..5): the entries up
\* to and including i take the value of entry i+1.
Flatten(A, i) == [j \in 1..Len(A) |-> IF j <= i THEN A[i + 1] ELSE A[j]]

\* One iteration of "for i in range(5)".
CollapseStep ==
    /\ pc \in {"fitted", "collapse"}
    /\ ci < CollapseScan
    /\ IF Collapsed(ellip, ci + 1)
         THEN ellip' = Flatten(ellip, ci + 1) /\ pa' = Flatten(pa, ci + 1)
         ELSE UNCHANGED <<ellip, pa>>
    /\ ci' = ci + 1
    /\ pc' = "collapse"
    /\ UNCHANGED <<inputs, pipeline, steps, radii, use_center, count, count_nochange, I, k,
                   perturbations, loss_calls, best, smooth_calls,
                   smooth_ellip, smooth_pa, ellip_err, pa_err, res>>

MinOf(S) == CHOOSE m \in S : \A v \in S : m <= v

\* ellip[:3] = min(ellip[:3])
Clamp(E) ==
    [j \in 1..Len(E) |->
        IF j <= ClampCount THEN MinOf({E[m] : m \in 1..ClampCount}) ELSE E[j]]

\* _ellip_smooth: a robust polynomial regression of _inv_x_to_eps(E) on
\* log10(R), mapped back by _x_to_eps.  The regression is not computed: its
\* prediction at each radius is the trend t, flat through a value of E or
\* rising with the radius index.
ellip_smooth(R, E, t) ==
    [j \in 1..Len(R) |->
        x_to_eps(IF t.rise = 0 THEN inv_x_to_eps(E[t.at])
                 ELSE inv_x_to_eps(E[t.at]) + ((j - 1) \div t.rise))]

\* _pa_smooth: regressions of cos(2 PA) and sin(2 PA), recombined into an
\* angle modulo 2 pi and halved; the predicted doubled angle is the trend.
pa_smooth(R, PA, t) ==
    [j \in 1..Len(R) |->
        ((IF t.rise = 0 THEN 2 * PA[t.at]
          ELSE 2 * PA[t.at] + ((j - 1) \div t.rise)) % (2 * PiUnits)) \div 2]

\* smooth_ellip = copy(ellip), taken before ellip[:3] is assigned.
SmoothCopy(E) == E

\* smooth_ellip = copy(ellip); smooth_pa = copy(pa); ellip[:3] = min(...);
\* the two smoother calls.
SmoothProfiles(trends) ==
    /\ pc = "collapse"
    /\ ~(ci < CollapseScan)
    /\ \E t \in trends :
         /\ smooth_calls' = [ellip |-> SmoothCopy(ellip), pa |-> pa]
         /\ smooth_ellip' = ellip_smooth(sample_radii, SmoothCopy(ellip), t)
         /\ smooth_pa' = pa_smooth(sample_radii, pa, t)
    /\ ellip' = Clamp(ellip)
    /\ pc' = "smoothed"
    /\ UNCHANGED <<inputs, pipeline, steps, radii, use_center, pa, count, count_nochange, I, k,
                   perturbations, loss_calls, best, ci, ellip_err, pa_err, res>>

\* np.sqrt of a whole number, rounded down.
ISqrt(v) == CHOOSE r \in 0..1000 : r * r <= v /\ v < (r + 1) * (r + 1)

RECURSIVE SumSq(_, _, _, _)
\* np.sum((A[lo:hi] - S[lo:hi])**2): a slice holds the entries lo..hi-1 that
\* exist (Python indices).
SumSq(A, S, lo, hi) ==
    IF lo >= hi \/ lo >= Len(A) THEN 0
    ELSE (A[lo + 1] - S[lo + 1]) * (A[lo + 1] - S[lo + 1]) + SumSq(A, S, lo + 1, hi)

\* np.sqrt(np.sum((A[lo:hi] - S[lo:hi])**2)/4), with the slice it was taken on.
Assigned(A, S, lo, hi) ==
    [v |-> ISqrt(SumSq(A, S, lo, hi) \div ErrWindow), win |-> <<lo, hi>>]

\* An entry of np.zeros that no assignment reached.
Placeholder == [v |-> 0, win |-> <<>>]

ErrSliceCentred(i, n) ==
    IF i \in 2..(n - 2) THEN <<i - 2, i + 3>>
    ELSE IF i = n - 1 THEN <<n - 4, n>>
    ELSE IF i < 2 THEN <<0, 4>>
    ELSE <<>>

\* The slice the entry of Python index i is computed on: the for loop over
\* range(2, n-1), else err[-1], else err[:2]; <<>> if none assigns it.
ErrSlice(i, n) ==
    IF i \in 2..(n - 2) THEN <<i - 2, i + 2>>
    ELSE IF i = n - 1 THEN <<n - 4, n>>
    ELSE IF i < 2 THEN <<0, 4>>
    ELSE <<>>

\* ellip_err, pa_err: np.zeros(n), then the assignments.
Errors(A, S) ==
    [j \in 1..Len(A) |->
        LET w == ErrSlice(j - 1, Len(A))
        IN  IF w = <<>> THEN Placeholder ELSE Assigned(A, S, w[1], w[2])]

ComputeErrors ==
    /\ pc = "smoothed"
    /\ ellip_err' = Errors(ellip, smooth_ellip)
    /\ pa_err' = Errors(pa, smooth_pa)
    /\ pc' = "errors"
    /\ UNCHANGED <<inputs, pipeline, steps, radii, use_center, fit, ci, smooth_calls,
                   smooth_ellip, smooth_pa, res>>

\* '%.2f' % R: the radius in hundredths of a pixel, rounded.
Format2(R) == (200 * R + RUnit) \div (2 * RUnit)

FitLimitFirst(R) == Format2(R[1])

\* 'fit limit semi-major axis: %.2f pix' % sample_radii[-1]
FitLimit(R) == Format2(Last(R))

\* res = {...}; return IMG, res
Return ==
    /\ pc = "errors"
    /\ res' = [IMG |-> IMG,
               fit_ellip |-> ellip, fit_pa |-> pa, fit_R |-> sample_radii,
               fit_ellip_err |-> [j \in 1..Len(ellip_err) |-> ellip_err[j].v],
               fit_pa_err |-> [j \in 1..Len(pa_err) |-> pa_err[j].v],
               auxfile_fitlimit |-> FitLimit(sample_radii)]
    /\ pc' = "returned"
    /\ UNCHANGED <<inputs, pipeline, steps, radii, use_center, fit, ci, smooth_calls,
                   smooth_ellip, smooth_pa, ellip_err, pa_err>>

----------------------------------------------------------------------------
(* The inputs: the caller's arguments, the shuffles, the random draws and  *)
(* the rings the sampler returns.                                          *)

Variants == {"Robust", "mean"}

\* The outer iterations whose pools at the first radius are varied: the three
\* perturbation modes, and the first iteration with regularization on.
RichIters == RegStart + 1

Image(h, l, c) == [half |-> h * RUnit, lo |-> l, cut |-> c * RUnit]
Center(cx, cy) == [x |-> cx, y |-> cy]
NoCenter == Center(0, 0)
\* An empty results update, {}, and the pipeline when none is walked.
NoUpdate == <<>>
NoPipeline == [list |-> "off", pos |-> 0, ran |-> <<>>, branch |-> "none",
               update |-> NoUpdate]
Results(p, e, a) ==
    [psf_fwhm |-> p * RUnit, init_ellip |-> e, init_pa |-> a,
     center |-> Center(8, 9)]
NoOptions == [keys |-> {}, ap_scale |-> 0, ap_regularize_scale |-> 0]
WithScale(s) == [keys |-> {"ap_scale"}, ap_scale |-> s, ap_regularize_scale |-> 0]
WithRegScale(r) ==
    [keys |-> {"ap_regularize_scale"}, ap_scale |-> 0, ap_regularize_scale |-> r]
NoPsf == [pc |-> "off"]
NoAxial == [pc |-> "off"]

IdentityOrder(n) == [j \in 1..n |-> j]
ReverseOrder(n) == [j \in 1..n |-> n + 1 - j]

Draw(e, a) == [de |-> e, dpa |-> a]
\* Draws that keep ellip[i] on the lattice -XMax..XMax.
InwardDraw(i) == Draw(IF inv_x_to_eps(ellip[i]) < XMax THEN 1 ELSE 0 - 1, 1)
OutwardDraw(i) == Draw(IF inv_x_to_eps(ellip[i]) > 0 - XMax THEN 0 - 1 ELSE 1, 0 - 1)
UniformDraws(d) == [n \in 1..N_perturb |-> d]
OneOffDraws(d0, d1, s) == [n \in 1..N_perturb |-> IF n = s THEN d1 ELSE d0]

AllRings(r) == [n \in 0..N_perturb |-> r]
PatternRings(a, b, c, s) ==
    [n \in 0..N_perturb |-> IF n = 0 THEN a ELSE IF n = s THEN b ELSE c]

\* Every candidate of the pool samples a ring without second harmonic, so
\* that every loss is 0.
QuietPool(i) == [draws |-> UniformDraws(InwardDraw(i)),
                 rings |-> AllRings(Ring("finite", 0))]

\* Every perturbation samples a ring of lower amplitude than the unchanged one.
ImprovingPool(i) == [draws |-> UniformDraws(InwardDraw(i)),
                     rings |-> PatternRings(Ring("finite", 2), Ring("finite", 1),
                                            Ring("finite", 1), 1)]

QuietPools == {QuietPool(I[k])}

LoopPools == IF I[k] = 1 THEN {QuietPool(1), ImprovingPool(1)} ELSE QuietPools

RingValues == {Ring("finite", 1), Ring("finite", 2), Ring("nan", 0)}

\* np.random.shuffle(I): either order while the pools are varied.
StepOrders ==
    IF count < RichIters
      THEN {IdentityOrder(Len(sample_radii)), ReverseOrder(Len(sample_radii))}
      ELSE {IdentityOrder(Len(sample_radii))}

StepPools ==
    IF I[k] = 1 /\ count <= RichIters
      THEN {[draws |-> OneOffDraws(d0, d1, s), rings |-> PatternRings(a, b, c, s)] :
              d0 \in {InwardDraw(1)},
              d1 \in {OutwardDraw(1)}, s \in {2},
              a \in RingValues, b \in RingValues \cup {Ring("empty", 0)},
              c \in {Ring("finite", 1), Ring("finite", 2)}}
           \cup {[draws |-> UniformDraws(InwardDraw(1)),
                  rings |-> AllRings(Ring("nan", 0))]}
      ELSE QuietPools

InitWith(imgs, ress, opts) ==
    /\ variant \in Variants
    /\ IMG \in imgs
    /\ results \in ress
    /\ options \in opts
    /\ pc = "attempt"
    /\ shrink = 0
    /\ sample_radii = <<>>
    /\ ellip = <<>>
    /\ pa = <<>>
    /\ count = 0
    /\ count_nochange = 0
    /\ I = <<>>
    /\ k = 0
    /\ perturbations = <<>>
    /\ loss_calls = <<>>
    /\ best = 0
    /\ use_center = NoCenter
    /\ ci = 0
    /\ smooth_calls = <<>>
    /\ smooth_ellip = <<>>
    /\ smooth_pa = <<>>
    /\ ellip_err = <<>>
    /\ pa_err = <<>>
    /\ res = <<>>
    /\ pipeline = NoPipeline
    /\ psf = NoPsf
    /\ axial = NoAxial

----------------------------------------------------------------------------
(* The tree pipeline of test/test_tree_config.py.  The steps other than    *)
(* 'branch edgeon' and 'edgeonfit' are AutoProf's own and are run by name. *)

EdgeonN == 100
EdgeonLimit == 800

\* ap_new_pipeline_steps
ap_new_pipeline_steps ==
    [head |-> <<"background", "psf", "center", "isophoteinit", "branch edgeon">>,
     standard |-> <<"isophotefit", "isophoteextract", "checkfit", "writeprof">>,
     edgeon |-> <<"edgeonfit", "isophoteextract", "writeprof", "axialprofiles",
                  "radsample">>]

branch_edgeonInclusive(rs) ==
    [branch |-> IF rs.init_ellip >= EdgeonLimit THEN "edgeon" ELSE "standard",
     update |-> NoUpdate]

\* ap_new_pipeline_methods['branch edgeon']:
\* ('edgeon' if results['init ellip'] > 0.8 else 'standard', {})
branch_edgeon(rs) ==
    [branch |-> IF rs.init_ellip > EdgeonLimit THEN "edgeon" ELSE "standard",
     update |-> NoUpdate]

EdgeonKeys == {"fit ellip", "fit pa", "fit ellip_err", "fit pa_err", "fit R"}

\* My_Edgon_Fit_Method: N copies of the initial values and of the fixed
\* errors (0.05; 5 degrees), and the N points of np.logspace, by their index.
My_Edgon_Fit_Method(rs) ==
    [key \in EdgeonKeys |->
        [j \in 1..EdgeonN |->
            IF key = "fit ellip" THEN rs.init_ellip
            ELSE IF key = "fit pa" THEN rs.init_pa
            ELSE IF key = "fit ellip_err" THEN 50
            ELSE IF key = "fit pa_err" THEN (5 * PiUnits) \div 180
            ELSE j]]

\* What a step of AutoProf's own adds to results is not modelled.
OwnUpdate == [own |-> TRUE]

StartPipeline == [list |-> "head", pos |-> 0, ran |-> <<>>, branch |-> "none",
                  update |-> NoUpdate]

\* The step the pipeline runs next: the one after the pos steps it has run
\* of its current list.
NextStepName == ap_new_pipeline_steps[pipeline.list][pipeline.pos + 1]
StepPending ==
    /\ pipeline.list \in DOMAIN ap_new_pipeline_steps
    /\ pipeline.pos < Len(ap_new_pipeline_steps[pipeline.list])
PipelineOnly ==
    <<variant, IMG, results, options, pc, radii, fit, use_center, post, steps>>

\* A step of AutoProf's own is run.
RunOwnStep ==
    /\ StepPending
    /\ NextStepName \notin {"branch edgeon", "edgeonfit"}
    /\ pipeline' = [pipeline EXCEPT !.pos = @ + 1,
                                    !.ran = Append(@, NextStepName),
                                    !.update = OwnUpdate]
    /\ UNCHANGED PipelineOnly

\* 'branch edgeon' is run: the pipeline goes on with the list it names.
RunBranch ==
    /\ StepPending
    /\ NextStepName = "branch edgeon"
    /\ LET ret == branch_edgeon(results)
       IN  pipeline' = [list |-> ret.branch, pos |-> 0,
                        ran |-> Append(pipeline.ran, NextStepName),
                        branch |-> ret.branch, update |-> ret.update]
    /\ UNCHANGED PipelineOnly

\* 'edgeonfit' is run.
RunEdgeonFit ==
    /\ StepPending
    /\ NextStepName = "edgeonfit"
    /\ pipeline' = [pipeline EXCEPT !.pos = @ + 1,
                                    !.ran = Append(@, NextStepName),
                                    !.update = My_Edgon_Fit_Method(results)]
    /\ UNCHANGED PipelineOnly

\* The last step of a branch has run.
EndPipeline ==
    /\ pipeline.list \in DOMAIN ap_new_pipeline_steps
    /\ ~StepPending
    /\ pipeline' = [pipeline EXCEPT !.list = "done"]
    /\ UNCHANGED PipelineOnly

\* Images, results and options for the radius-set generation.
RadiiImages == {Image(h, l, c) : h \in {8, 16, 24}, l \in {0, RUnit \div 2},
                                 c \in {2, 4, 32}}
RadiiResults == {Results(p, 500, 0) : p \in 1..MaxPsf}
RadiiOptions == {NoOptions} \cup {WithScale(s) : s \in {0 - 20, 0, 1, 10}}

\* One image on which the first attempt gives exactly MinRadii radii, and
\* one on which every attempt fails.
FitImages == {Image(17, 0, 32), Image(8, 0, 2)}
FitResults == {Results(1, 500, 0)}
FitOptions == {NoOptions, WithRegScale(2)}

Init == InitWith(RadiiImages, RadiiResults, RadiiOptions)

Next ==
    \/ NewAttempt
    \/ GrowRadius
    \/ EndAttempt
    \/ InitFailed
    \/ StartFit
    \/ NextIteration({IdentityOrder(Len(sample_radii))})
    \/ RadiusStep(QuietPools)
    \/ ExitLoop

Spec == Init /\ [][Next]_vars /\ WF_vars(Next)

\* Initialization alone: the radius-set generation, up to its return or its
\* error.  A Python statement that can run does run, hence the fairness.
NextRadii ==
    \/ NewAttempt
    \/ GrowRadius
    \/ EndAttempt
    \/ InitFailed

SpecRadii == Init /\ [][NextRadii]_vars /\ WF_vars(NextRadii)

InitLoop == InitWith(FitImages, FitResults, {NoOptions})

NextLoop ==
    \/ NewAttempt
    \/ GrowRadius
    \/ EndAttempt
    \/ InitFailed
    \/ StartFit
    \/ NextIteration({IdentityOrder(Len(sample_radii))})
    \/ RadiusStep(LoopPools)
    \/ ExitLoop

SpecLoop == InitLoop /\ [][NextLoop]_vars /\ WF_vars(NextLoop)

InitStep == InitWith(FitImages, FitResults, FitOptions)

NextStep ==
    \/ NewAttempt
    \/ GrowRadius
    \/ EndAttempt
    \/ InitFailed
    \/ StartFit
    \/ NextIteration(StepOrders)
    \/ RadiusStep(StepPools)
    \/ ExitLoop

SpecStep == InitStep /\ [][NextStep]_vars /\ WF_vars(NextStep)

\* The whole function, to its return.  In the first outer iteration the
\* pools of the first VariedRadii radii may commit a perturbation, inward at
\* every one of them and outward at the first ClampCount, so that the loop
\* leaves profiles that differ in their first entries; every other pool is
\* quiet.
VariedRadii == CollapseScan + 1

DescendingPool(i) ==
    [draws |-> UniformDraws(OutwardDraw(i)),
     rings |-> PatternRings(Ring("finite", 2), Ring("finite", 1),
                            Ring("finite", 1), 1)]

PostPools ==
    IF count = 1 /\ I[k] <= VariedRadii
      THEN {QuietPool(I[k]), ImprovingPool(I[k])}
           \cup (IF I[k] <= ClampCount THEN {DescendingPool(I[k])} ELSE {})
      ELSE QuietPools

\* The predictions of the two regressions: flat through the first or the
\* last entry of the array smoothed, or rising once every ErrWindow radii.
Trend(a, r) == [at |-> a, rise |-> r]
Trends ==
    {Trend(1, 0), Trend(Len(sample_radii), 0), Trend(1, ErrWindow)}

\* A fit on increasing radii, a fit on the decreasing radii that a negative
\* ap_scale gives on an image dim at its center, and a failed initialization.
InitPost ==
    \/ InitWith({Image(17, 0, 32)}, {Results(1, 500, 0)}, {NoOptions})
    \/ InitWith({Image(8, RUnit \div 2, 4)}, {Results(2, 500, 0)},
                {WithScale(0 - 20)})
    \/ InitWith({Image(8, 0, 2)}, {Results(1, 500, 0)}, {NoOptions})

NextPost ==
    \/ NewAttempt
    \/ GrowRadius
    \/ EndAttempt
    \/ InitFailed
    \/ StartFit
    \/ NextIteration({IdentityOrder(Len(sample_radii))})
    \/ RadiusStep(PostPools)
    \/ ExitLoop
    \/ CollapseStep
    \/ SmoothProfiles(Trends)
    \/ ComputeErrors
    \/ Return

SpecPost == InitPost /\ [][NextPost]_vars /\ WF_vars(NextPost)

\* The tree pipeline, for initial ellipticities on both sides of the limit.
TreeEllips ==
    {100 * m : m \in 0..9} \cup {EdgeonLimit - 1, EdgeonLimit, EdgeonLimit + 1}

InitTree ==
    /\ variant \in Variants
    /\ IMG = Image(17, 0, 32)
    /\ results \in {Results(1, e, 0) : e \in TreeEllips}
    /\ options = NoOptions
    /\ pc = "attempt"
    /\ shrink = 0
    /\ sample_radii = <<>>
    /\ ellip = <<>>
    /\ pa = <<>>
    /\ count = 0
    /\ count_nochange = 0
    /\ I = <<>>
    /\ k = 0
    /\ perturbations = <<>>
    /\ loss_calls = <<>>
    /\ best = 0
    /\ use_center = NoCenter
    /\ ci = 0
    /\ smooth_calls = <<>>
    /\ smooth_ellip = <<>>
    /\ smooth_pa = <<>>
    /\ ellip_err = <<>>
    /\ pa_err = <<>>
    /\ res = <<>>
    /\ pipeline = StartPipeline
    /\ psf = NoPsf
    /\ axial = NoAxial

NextTree ==
    \/ RunOwnStep
    \/ RunBranch
    \/ RunEdgeonFit
    \/ EndPipeline

SpecTree == InitTree /\ [][NextTree]_vars /\ WF_vars(NextTree)

----------------------------------------------------------------------------
(* PSF_IRAF (autoprofutils/PSF.py).  Widths are fixed-point integers,      *)
(* RUnit units per pixel, and ap_pixscale is RUnit units per arcsecond.    *)
(* A dictionary is a function from its keys; the function's local names    *)
(* are the dictionary psf.locals.                                          *)
Max2(a, b) == IF a >= b THEN a ELSE b
Restrict(d, keys) == [key \in keys |-> d[key]]

\* The names the module binds at its top level.
PsfModuleNames ==
    {"DAOStarFinder", "IRAFStarFinder", "np", "iqr", "plt", "SqrtStretch",
     "LogStretch", "ImageNormalize", "Ellipse", "logging", "product",
     "minimize", "norm", "multivariate_normal", "fft", "ifft", "sys", "os",
     "_iso_extract", "StarFind", "AddLogo", "deepcopy", "PSF_IRAF",
     "PSF_StarFind"}

\* Reading a name that neither the function nor the module has bound
\* raises NameError.
PsfBound(name) == name \in DOMAIN psf.locals \cup PsfModuleNames

\* max(1., 1./options['ap_pixscale'])
PixelGuess(o) == Max2(RUnit, (RUnit * RUnit) \div o["ap_pixscale"])

\* Lines 23-30: the user's value is returned at once; otherwise fwhm_guess
\* is the user's guess or the pixel-scale guess.
PsfGuess ==
    /\ psf.pc = "call"
    /\ LET o == psf.locals["options"]
       IN  IF "ap_set_psf" \in DOMAIN o
           THEN psf' = [psf EXCEPT !.pc = "returned",
                                   !.ret = [IMG |-> psf.locals["IMG"],
                                            update |-> ("psf fwhm" :> o["ap_set_psf"])]]
           ELSE psf' = [psf EXCEPT
                          !.pc = "guessed",
                          !.locals = psf.locals @@
                              ("fwhm_guess" :>
                                 IF "ap_guess_psf" \in DOMAIN o
                                 THEN o["ap_guess_psf"] ELSE PixelGuess(o))]
    /\ UNCHANGED <<variant, IMG, results, options, pc, radii, fit, use_center,
                   post, pipeline, axial>>

\* Lines 32-40: edge_mask, dat, count and sources are bound, then
\* psf_iter = deepcopy(psf_guess) reads psf_guess, before the try of line 41
\* is entered.
PsfPrepare ==
    /\ psf.pc = "guessed"
    /\ LET bound == psf.locals @@ [edge_mask |-> "centre", dat |-> "IMG - background",
                                   count |-> 0, sources |-> 0]
       IN  IF PsfBound("deepcopy") /\ PsfBound("psf_guess")
           THEN psf' = [psf EXCEPT !.pc = "try",
                                   !.locals = bound @@
                                       ("psf_iter" :> psf.locals["psf_guess"])]
           ELSE psf' = [psf EXCEPT !.pc = "raised", !.locals = bound,
                                   !.ret = "NameError"]
    /\ UNCHANGED <<variant, IMG, results, options, pc, radii, fit, use_center,
                   post, pipeline, axial>>

\* The calls: every combination of ap_set_psf and ap_guess_psf given or
\* not, over a range of widths and pixel scales.
PsfWidths == {(w * RUnit) \div 2 : w \in 1..(2 * MaxPsf + 1)}
PixScales == {RUnit \div 4, RUnit \div 2, RUnit, 2 * RUnit}
PsfOptionKeys ==
    {{"ap_name", "ap_pixscale"} \cup given : given \in SUBSET {"ap_set_psf", "ap_guess_psf"}}
PsfOptions ==
    {Restrict([ap_name |-> "galaxy", ap_pixscale |-> px, ap_set_psf |-> s,
               ap_guess_psf |-> g], keys) :
       px \in PixScales, s \in PsfWidths, g \in PsfWidths, keys \in PsfOptionKeys}
PsfCall(o) ==
    [pc |-> "call",
     locals |-> [IMG |-> "image", results |-> "results", options |-> o],
     ret |-> "none"]

InitPsf ==
    /\ variant = "Robust"
    /\ IMG = Image(17, 0, 32)
    /\ results = Results(1, 500, 0)
    /\ options = NoOptions
    /\ pc = "attempt"
    /\ shrink = 0
    /\ sample_radii = <<>>
    /\ ellip = <<>>
    /\ pa = <<>>
    /\ count = 0
    /\ count_nochange = 0
    /\ I = <<>>
    /\ k = 0
    /\ perturbations = <<>>
    /\ loss_calls = <<>>
    /\ best = 0
    /\ use_center = NoCenter
    /\ ci = 0
    /\ smooth_calls = <<>>
    /\ smooth_ellip = <<>>
    /\ smooth_pa = <<>>
    /\ ellip_err = <<>>
    /\ pa_err = <<>>
    /\ res = <<>>
    /\ pipeline = NoPipeline
    /\ psf \in {PsfCall(o) : o \in PsfOptions}
    /\ axial = NoAxial

NextPsf ==
    \/ PsfGuess
    \/ PsfPrepare

SpecPsf == InitPsf /\ [][NextPsf]_vars /\ WF_vars(NextPsf)

----------------------------------------------------------------------------
(* The radial grid of Axial_Profiles (autoprofutils/Axial_Profiles.py).    *)
(* Lengths are fixed-point integers, RUnit units per pixel or arcsecond;   *)
(* ap_samplegeometricscale is an integer number of 1/ScaleDen and          *)
(* ap_samplelinearscale a length; a product or quotient is rounded down.   *)
DefaultGeoScale == 10
MaxGrid == 6

\* Lines 20-23: the profile limit, from the last radius of an extracted
\* profile or from the smaller side of the image.
ProfLimit(shape, rs, o) ==
    IF "prof data" \in DOMAIN rs
    THEN (Last(rs["prof data"].R) * RUnit) \div o["ap_pixscale"]
    ELSE (Min2(shape[1], shape[2]) * RUnit) \div 2

\* Lines 27-30: the step the sampling style asks for at the grid point r.
GridStep(rs, o, r) ==
    IF "ap_samplestyle" \in DOMAIN o /\ o["ap_samplestyle"] = "linear"
    THEN IF "ap_samplelinearscale" \in DOMAIN o
         THEN o["ap_samplelinearscale"]
         ELSE rs["psf fwhm"] \div 2
    ELSE (r * (IF "ap_samplegeometricscale" \in DOMAIN o
               THEN o["ap_samplegeometricscale"]
               ELSE DefaultGeoScale)) \div ScaleDen

NextPointNoFloor(r, step) == r + step

\* Line 31: R[-1] + max(1,step)
NextPoint(r, step) == r + Max2(RUnit, step)

\* Lines 20-25.
AxialLimit ==
    /\ axial.pc = "call"
    /\ axial' = [axial EXCEPT
                   !.pc = "grid",
                   !.Rproflim = ProfLimit(axial.shape, axial.results, axial.options),
                   !.R = <<0>>]
    /\ UNCHANGED <<variant, IMG, results, options, pc, radii, fit, use_center,
                   post, pipeline, psf>>

\* Lines 26-31: one pass of the while loop.
AxialAppend ==
    /\ axial.pc = "grid"
    /\ Last(axial.R) < axial.Rproflim
    /\ axial' = [axial EXCEPT
                   !.R = Append(axial.R,
                                NextPoint(Last(axial.R),
                                          GridStep(axial.results, axial.options,
                                                   Last(axial.R))))]
    /\ UNCHANGED <<variant, IMG, results, options, pc, radii, fit, use_center,
                   post, pipeline, psf>>

\* Line 26: the while condition fails and the grid is complete.
AxialGridDone ==
    /\ axial.pc = "grid"
    /\ ~(Last(axial.R) < axial.Rproflim)
    /\ axial' = [axial EXCEPT !.pc = "gridded"]
    /\ UNCHANGED <<variant, IMG, results, options, pc, radii, fit, use_center,
                   post, pipeline, psf>>

\* The calls: every sampling style, with the scales configured or not
\* (negative, zero, below and above one pixel), and limits from an
\* extracted profile or from the image shape, up to MaxGrid pixels.
HalfPixels == {(h * RUnit) \div 2 : h \in 0..(2 * MaxGrid)}
LinearScales == {0 - RUnit, 0, RUnit \div 2, RUnit, (3 * RUnit) \div 2}
GeoScales == {0 - ScaleDen \div 2, 0, DefaultGeoScale, ScaleDen \div 2, ScaleDen}
AxialOptionKeys ==
    {{"ap_pixscale"} \cup given :
       given \in SUBSET {"ap_samplestyle", "ap_samplelinearscale",
                         "ap_samplegeometricscale"}}
AxialOptions ==
    {Restrict([ap_pixscale |-> px, ap_samplestyle |-> st,
               ap_samplelinearscale |-> ls, ap_samplegeometricscale |-> gs],
              keys) :
       px \in {RUnit \div 2, RUnit}, st \in {"linear", "geometric"},
       ls \in LinearScales, gs \in GeoScales, keys \in AxialOptionKeys}
AxialResults ==
    {("psf fwhm" :> w) : w \in PsfWidths}
      \cup {("psf fwhm" :> RUnit) @@ ("prof data" :> [R |-> <<0, r>>]) :
              r \in {h \in HalfPixels : 2 * h <= MaxGrid * RUnit}}
AxialShapes == {<<2 * MaxGrid + 1, 2 * MaxGrid>>, <<MaxGrid, MaxGrid + 3>>, <<0, 4>>}
AxialCall(shape, rs, o) ==
    [pc |-> "call", shape |-> shape, results |-> rs, options |-> o,
     Rproflim |-> 0, R |-> <<>>]

InitAxial ==
    /\ variant = "Robust"
    /\ IMG = Image(17, 0, 32)
    /\ results = Results(1, 500, 0)
    /\ options = NoOptions
    /\ pc = "attempt"
    /\ shrink = 0
    /\ sample_radii = <<>>
    /\ ellip = <<>>
    /\ pa = <<>>
    /\ count = 0
    /\ count_nochange = 0
    /\ I = <<>>
    /\ k = 0
    /\ perturbations = <<>>
    /\ loss_calls = <<>>
    /\ best = 0
    /\ use_center = NoCenter
    /\ ci = 0
    /\ smooth_calls = <<>>
    /\ smooth_ellip = <<>>
    /\ smooth_pa = <<>>
    /\ ellip_err = <<>>
    /\ pa_err = <<>>
    /\ res = <<>>
    /\ pipeline = NoPipeline
    /\ psf = NoPsf
    /\ axial \in {AxialCall(shape, rs, o) :
                    shape \in AxialShapes, rs \in AxialResults, o \in AxialOptions}

NextAxial ==
    \/ AxialLimit
    \/ AxialAppend
    \/ AxialGridDone

SpecAxial == InitAxial /\ [][NextAxial]_vars /\ WF_vars(NextAxial)

----------------------------------------------------------------------------
(* Properties.                                                             *)

NRadii == Len(sample_radii)
InLoop == pc \in {"while", "for"}
EntersBody == pc = "while" /\ pc' = "for"
\* A radius step that ran to its end (no exception left the loss).
StepDone == pc = "for" /\ pc' \in {"for", "while"}
Pool0to5 == 0..N_perturb

\* The loop steps still possible: outer iterations left, times the steps of
\* one (the while test and one step per radius), plus the rest of this one.
FitRank ==
    IF ~InLoop THEN 0
    ELSE (MaxCount - count) * (NRadii + 1) + 1
         + (IF pc = "for" THEN NRadii + 1 - k ELSE 0)

\* C1: the fitting loop terminates.  An outer iteration starts only while
\* count < 300 and count_nochange < 3 x radius_count, count grows by exactly
\* 1 per outer iteration and by nothing else, count never passes 300, and
\* every step of the loop lowers the number of steps still possible, which
\* is at most 300 x (radius_count + 1) + 1.
C1_LoopTerminates ==
    [][InLoop =>
         /\ count' = count + 1 <=> EntersBody
         /\ count' # count + 1 => count' = count
         /\ EntersBody => count < MaxCount /\ count_nochange < NoChangeFactor * NRadii
         /\ count' <= MaxCount
         /\ FitRank' < FitRank
         /\ FitRank <= MaxCount * (NRadii + 1) + 1]_vars

\* The loop was left by the iteration cap, a perturbation having been
\* committed within the last 3 x radius_count radius steps.
C1_Witness ==
    pc = "fitted" /\ count = MaxCount /\ count_nochange < NoChangeFactor * NRadii

\* C2: initialization raises exactly when five relaxation attempts
\* (shrink = 0..4) each gave fewer than 15 radii: shrink grows only by 1 and
\* only at the end of an attempt that gave fewer than 15, the error is raised
\* only at shrink = 5 and an attempt that gives 15 or more is never followed
\* by it; when it is raised count is 0 and no parameter array exists; no
\* attempt runs at shrink >= 5; and once the fit has started the radius set
\* has at least 15 entries.
C2_InitFailure ==
    [][/\ shrink' # shrink =>
            /\ shrink' = shrink + 1
            /\ pc = "grow" /\ pc' = "attempt"
            /\ Len(sample_radii) < MinRadii
       /\ pc = "grow" /\ pc' # "grow" /\ Len(sample_radii) >= MinRadii =>
            pc' = "initialized" /\ shrink' = shrink
       /\ pc' = "raised" =>
            /\ pc = "attempt" /\ shrink = MaxShrink
            /\ Len(sample_radii) < MinRadii
            /\ count' = 0 /\ ellip' = <<>> /\ pa' = <<>>
       /\ pc = "attempt" /\ shrink = MaxShrink => pc' = "raised"
       /\ pc' = "grow" => shrink' < MaxShrink
       /\ pc = "raised" => pc' = "raised"
       /\ pc' \in {"initialized", "while", "for", "fitted", "aborted"} =>
            /\ Len(sample_radii') >= MinRadii
            /\ shrink' < MaxShrink
       /\ pc' \in {"while", "for", "fitted", "aborted"} =>
            Len(ellip') = Len(sample_radii') /\ Len(pa') = Len(sample_radii')]_vars

\* The error was raised after five attempts that each grew the seed radius.
C2_Witness ==
    pc = "raised" /\ shrink = MaxShrink /\ Len(sample_radii) > 1 /\ count = 0

\* Every product by 1 + scale/(1 + shrink), shrink = 0..4, of a radius from
\* the seed on is larger than the radius: scale is positive and the growth of
\* the seed radius at the slowest rate is not rounded away.
GrowthEffective ==
    /\ Scale(options) > 0
    /\ (SeedRadius(results) * Scale(options)) \div (ScaleDen * MaxShrink) >= 1

\* C3 as claimed, for every configured scale: every attempt finishes its
\* growth loop.  The test of that loop reads the last radius only, so an
\* iteration that appends the radius it has just tested is repeated forever:
\* the claim demands that no iteration does.
C3_EveryScaleFinishes ==
    [][pc = "grow" /\ pc' = "grow" => Last(sample_radii') # Last(sample_radii)]_vars

\* C3, amended: when the growth is effective, radius-set generation ends, by
\* returning a radius set or by raising.
C3_GenerationEnds ==
    (pc \in {"attempt", "grow"} /\ GrowthEffective)
        ~> (pc \in {"initialized", "raised"})

\* A radius set was returned after at least one relaxation, under a
\* configured growth rate.
C3_Witness ==
    /\ pc = "initialized" /\ GrowthEffective /\ shrink > 0
    /\ "ap_scale" \in options.keys

StartsAtSeed(s) == s[1] = SeedRadius(results)
GrownFromPrevious(s) ==
    \A j \in 1..(Len(s) - 1) : s[j + 1] = Grow(s[j], Scale(options), shrink)
StrictlyIncreasing(s) == \A j \in 1..(Len(s) - 1) : s[j] < s[j + 1]
Produced == pc \in {"initialized", "while", "for", "fitted", "aborted"}

C5_NoChangeCounter ==
    [][IF StepDone
         THEN \/ /\ best' > 0
                 /\ ellip' = perturbations'[best'].ellip
                 /\ pa' = perturbations'[best'].pa
                 /\ count_nochange' = 0
              \/ /\ best' = 0
                 /\ ellip' = ellip /\ pa' = pa
                 /\ count_nochange' = count_nochange + 1
         ELSE count_nochange' = count_nochange]_vars

\* In a later outer iteration a step committed a perturbation and reset the
\* counter, which earlier steps had raised.
C5_Witness ==
    /\ pc \in {"for", "while"} /\ count > 1
    /\ DOMAIN perturbations = Pool0to5
    /\ best > 0 /\ count_nochange = 0
    /\ ellip = perturbations[best].ellip /\ pa = perturbations[best].pa

LossOf(n) == perturbations[n].loss

\* C6 as claimed: after a radius step the committed arrays are those of a
\* minimum-loss candidate; a perturbation is committed only if its loss is
\* strictly lower than that of the unchanged candidate and no candidate has
\* a lower loss.
C6_MinimumLossCommitted ==
    (pc \in {"for", "while"} /\ count > 0 /\ DOMAIN perturbations = Pool0to5) =>
       /\ \A n \in Pool0to5 : ~LossLess(LossOf(n), LossOf(best))
       /\ best > 0 => LossLess(LossOf(best), LossOf(0))
       /\ ellip = perturbations[best].ellip /\ pa = perturbations[best].pa

\* C7: in an outer iteration with counter value count, every perturbation of
\* every pool alters ellip alone when count mod 3 = 0, ellip and pa when it
\* is 1, and pa alone when it is 2.
C7_PerturbationMode ==
    [][StepDone =>
         \A n \in 1..N_perturb :
            LET alters_ellip == perturbations'[n].ellip # ellip
                alters_pa == perturbations'[n].pa # pa
            IN  /\ count % 3 = 0 => alters_ellip /\ ~alters_pa
                /\ count % 3 = 1 => alters_ellip /\ alters_pa
                /\ count % 3 = 2 => ~alters_ellip /\ alters_pa]_vars

\* A perturbation that altered both arrays was committed.
C7_Witness ==
    /\ pc = "for" /\ count % 3 = 1 /\ best > 0
    /\ DOMAIN perturbations = Pool0to5
    /\ perturbations[best].ellip # perturbations[0].ellip
    /\ perturbations[best].pa # perturbations[0].pa

\* C8: every loss call of a radius step is passed reg_scale 0 while
\* count <= 4 and the configured regularize_scale (1 when not configured)
\* while count > 4, the same for the six candidates of a pool; while it is 0
\* the loss of a finite ring is its amplitude alone; and a later step never
\* goes back from regularize_scale to 0.
C8_RegularizationScale ==
    [][StepDone =>
         /\ \A n \in Pool0to5 :
              /\ loss_calls'[n].reg_scale =
                   (IF count <= 4 THEN 0
                    ELSE IF "ap_regularize_scale" \in options.keys
                           THEN options.ap_regularize_scale ELSE 1)
              /\ loss_calls'[n].reg_scale = loss_calls'[0].reg_scale
              /\ count <= 4 /\ loss_calls'[n].ring.kind = "finite" =>
                   perturbations'[n].loss = Num(1000 * loss_calls'[n].ring.f2)
         /\ (DOMAIN loss_calls = Pool0to5 /\ loss_calls[0].reg_scale # 0) =>
              loss_calls'[0].reg_scale = loss_calls[0].reg_scale]_vars

\* A pool was evaluated with a configured regularization scale, and the
\* regularization raised the loss of a candidate above its amplitude.
C8_Witness ==
    /\ pc \in {"for", "while"} /\ count > 4
    /\ DOMAIN loss_calls = Pool0to5
    /\ "ap_regularize_scale" \in options.keys
    /\ loss_calls[0].reg_scale = options.ap_regularize_scale
    /\ \E n \in Pool0to5 :
          /\ loss_calls[n].ring.kind = "finite"
          /\ perturbations[n].loss.kind = "num"
          /\ perturbations[n].loss.v > 1000 * loss_calls[n].ring.f2

\* C9 as claimed, for both variants: the loss of a ring that holds NaN
\* samples is the sentinel (inf), no loss is NaN, and no candidate with a
\* NaN loss is committed.
C9_SentinelNotNaN ==
    (pc \in {"for", "while"} /\ DOMAIN perturbations = Pool0to5) =>
       /\ \A n \in Pool0to5 :
            /\ loss_calls[n].ring.kind = "nan" => LossOf(n) = Inf
            /\ LossOf(n).kind # "nan"
       /\ LossOf(best).kind # "nan"

\* C10: in the mean variant a ring with non-finite samples gets the loss
\* inf and does not abort the step (only an empty ring does); a candidate
\* with such a ring is committed only if no candidate has a finite loss; and
\* when all six losses are inf the arrays are kept and count_nochange grows
\* by 1.
C10_NonFiniteSoftFailure ==
    [][(pc = "for" /\ variant = "mean") =>
         /\ pc' = "aborted" <=> \E n \in Pool0to5 : loss_calls'[n].ring.kind = "empty"
         /\ StepDone =>
              /\ \A n \in Pool0to5 :
                   loss_calls'[n].ring.kind = "nan" =>
                     /\ perturbations'[n].loss = Inf
                     /\ n > 0 /\ best' = n =>
                          \A m \in Pool0to5 : perturbations'[m].loss.kind # "num"
              /\ (\A n \in Pool0to5 : perturbations'[n].loss = Inf) =>
                   /\ best' = 0
                   /\ ellip' = ellip /\ pa' = pa
                   /\ count_nochange' = count_nochange + 1]_vars

\* In the mean variant a step whose six rings all held non-finite samples
\* kept the arrays and counted.
C10_Witness ==
    /\ variant = "mean" /\ pc = "for"
    /\ DOMAIN perturbations = Pool0to5
    /\ \A n \in Pool0to5 :
          loss_calls[n].ring.kind = "nan" /\ perturbations[n].loss = Inf
    /\ best = 0 /\ count_nochange > 0

----------------------------------------------------------------------------
(* Properties of the steps after the loop.                                 *)

\* The arrays as the loop left them: its last radius step kept the
\* unchanged candidate, which is a copy of them.
LoopEllip == perturbations[0].ellip
LoopPa == perturbations[0].pa
ScanStep == pc \in {"fitted", "collapse"} /\ pc' = "collapse"
ScanDone == pc = "collapse" /\ ci = CollapseScan
\* Transformed ellipticity of E at i exceeds that at i+1 by more than 0.5.
Drop(E, i) == 2 * (inv_x_to_eps(E[i]) - inv_x_to_eps(E[i + 1])) > 1
Drops(E) == {i \in 1..CollapseScan : Drop(E, i)}
MaxOf(S) == CHOOSE m \in S : \A v \in S : v <= m

\* C11: the collapsed-center scan visits the indices 0..4 (here 1..5) in
\* increasing order; an iteration that finds the transformed ellipticity at
\* i more than 0.5 above that at i+1 overwrites every ellipticity up to and
\* including i with the value at i+1 and changes no other; an iteration
\* that does not leaves the array alone; entries above the first five are
\* never changed; and when the array the loop left has no such drop among
\* its first five adjacent pairs, the scan leaves it unchanged.
C11_CollapseScan ==
    [][ScanStep =>
         LET i == ci + 1
         IN  /\ ci < CollapseScan /\ ci' = i
             /\ IF Drop(ellip, i)
                  THEN \A j \in 1..NRadii :
                          ellip'[j] = IF j <= i THEN ellip[i + 1] ELSE ellip[j]
                  ELSE ellip' = ellip
             /\ \A j \in (CollapseScan + 1)..NRadii : ellip'[j] = LoopEllip[j]
             /\ (ci' = CollapseScan /\ Drops(LoopEllip) = {}) => ellip' = LoopEllip]_vars

\* The scan found drops at two indices, the later one at its last
\* iteration, and the profile is flat up to there.
C11_Witness ==
    /\ ScanDone
    /\ Drop(LoopEllip, 2) /\ Drop(LoopEllip, CollapseScan)
    /\ \A j \in 1..CollapseScan : ellip[j] = LoopEllip[CollapseScan + 1]
    /\ ellip[1] # LoopEllip[1]

\* C12 as claimed: the array the smoother is fitted to and the returned
\* 'fit ellip' both have their first three entries equal to the minimum of
\* the three values the collapsed-center scan left.
C12_ClampedBeforeSmoothing ==
    [][(pc = "collapse" /\ pc' = "smoothed") =>
         \A j \in 1..ClampCount :
            /\ ellip'[j] = MinOf({ellip[m] : m \in 1..ClampCount})
            /\ smooth_calls'.ellip[j] = MinOf({ellip[m] : m \in 1..ClampCount})]_vars

\* The sum np.sum((A[lo:hi] - S[lo:hi])**2) of a four-point window, and the
\* error it gives.
Sq(A, S, j) == (A[j] - S[j]) * (A[j] - S[j])
WindowRms(A, S, lo) ==
    ISqrt((Sq(A, S, lo + 1) + Sq(A, S, lo + 2) + Sq(A, S, lo + 3)
           + Sq(A, S, lo + 4)) \div 4)
\* The first Python index of the window of entry i of n.
WindowLo(i, n) == IF i <= 1 THEN 0 ELSE IF i = n - 1 THEN n - 4 ELSE i - 2
ErrorsAsSpecified(err, A, S) ==
    /\ Len(err) = Len(A)
    /\ \A j \in 1..Len(A) :
         LET lo == WindowLo(j - 1, Len(A))
         IN  /\ err[j].win = <<lo, lo + 4>>
             /\ 0 <= lo /\ lo + 4 <= Len(A)
             /\ err[j].v = WindowRms(A, S, lo)

\* C13: with n >= 15 radii, every entry of ellip_err and of pa_err is
\* assigned, from the squared differences raw - smoothed of the window
\* [0,4) at the indices 0 and 1, [n-4,n) at the index n-1 and [i-2,i+2) at
\* every other index i; every window lies inside the arrays; and the
\* returned error arrays hold these values.
C13_ErrorWindows ==
    pc \in {"errors", "returned"} =>
       /\ Len(ellip) >= MinRadii
       /\ ErrorsAsSpecified(ellip_err, ellip, smooth_ellip)
       /\ ErrorsAsSpecified(pa_err, pa, smooth_pa)
       /\ pc = "returned" =>
            \A j \in 1..Len(ellip) : /\ res.fit_ellip_err[j] = ellip_err[j].v
                                     /\ res.fit_pa_err[j] = pa_err[j].v

\* Errors were returned that differ between the first window, an interior
\* window and the last one.
C13_Witness ==
    /\ pc = "returned"
    /\ res.fit_ellip_err[1] # res.fit_ellip_err[4]
    /\ res.fit_ellip_err[1] = res.fit_ellip_err[2]
    /\ res.fit_ellip_err[NRadii] # res.fit_ellip_err[NRadii - 2]
    /\ res.fit_ellip_err[NRadii] > 0
    /\ res.fit_pa_err[1] # res.fit_pa_err[NRadii]

InRange(E, PA) ==
    /\ \A j \in DOMAIN E : 0 <= E[j] /\ E[j] < 1000
    /\ \A j \in DOMAIN PA : 0 <= PA[j] /\ PA[j] < PiUnits

\* C14: the initial ellipticity being in [0,1) and the initial position
\* angle in [0,pi), in every state of the fit, of the collapsed-center scan
\* and after the clamp, every ellip[i] is in [0,1) and every pa[i] in
\* [0,pi), and so is every candidate of a pool.
C14_ParameterRanges ==
    (0 <= results.init_ellip /\ results.init_ellip < 1000
     /\ 0 <= results.init_pa /\ results.init_pa < PiUnits) =>
       /\ InRange(ellip, pa)
       /\ \A n \in DOMAIN perturbations :
            InRange(perturbations[n].ellip, perturbations[n].pa)
       /\ pc = "returned" => InRange(res.fit_ellip, res.fit_pa)

\* A fit returned a profile flattened by the scan whose position angle had
\* wrapped below 0 and whose ellipticity had been perturbed both ways.
C14_Witness ==
    /\ pc = "returned"
    /\ \E j \in 1..NRadii : LoopPa[j] = PiUnits - 1
    /\ \E j \in 1..NRadii : LoopEllip[j] > results.init_ellip
    /\ \E j \in 1..NRadii : LoopEllip[j] < results.init_ellip
    /\ ellip # LoopEllip

BundleArrays ==
    <<res.fit_R, res.fit_ellip, res.fit_pa, res.fit_ellip_err, res.fit_pa_err>>
BundleComplete ==
    /\ \A m \in 1..5 : Len(BundleArrays[m]) = Len(sample_radii)
    /\ res.fit_R = sample_radii
    /\ res.auxfile_fitlimit = Format2(sample_radii[Len(sample_radii)])
LastIsLargest(R) == \A j \in 1..Len(R) : R[j] <= R[Len(R)]

\* C15 as claimed: when a fit returns, the five arrays of the bundle have
\* the length of the radius set, which is the one initialization fixed, and
\* the fit-limit annotation reports the last radius, which is the largest.
C15_BundleLastIsLargest ==
    pc = "returned" => BundleComplete /\ LastIsLargest(sample_radii)

\* C15, amended: the radius set is not changed once initialization has
\* fixed it; when a fit returns, the five arrays of the bundle have its
\* length, 'fit R' is the radius set, and the annotation reports its last
\* radius to two decimals; the last radius is the largest when the growth
\* is effective.
C15_Bundle ==
    [][/\ pc \notin {"attempt", "grow"} => sample_radii' = sample_radii
       /\ pc' = "returned" =>
            /\ BundleComplete'
            /\ Len(sample_radii') >= MinRadii
            /\ GrowthEffective => LastIsLargest(sample_radii')]_vars

\* A fit returned on increasing radii, its annotation reporting the largest.
C15_Witness ==
    /\ pc = "returned" /\ GrowthEffective
    /\ res.auxfile_fitlimit = Format2(Last(sample_radii))
    /\ sample_radii[1] < Last(sample_radii)
    /\ Len(res.fit_ellip_err) = Len(sample_radii)

\* C16: no step changes IMG, results or options; every loss call of every
\* radius step samples around the center the caller gave; and the image
\* returned is IMG.
C16_InputsUnchanged ==
    [][/\ IMG' = IMG /\ results' = results /\ options' = options
       /\ pc \in {"while", "for", "fitted", "collapse", "smoothed", "errors"} =>
            use_center' = results.center
       /\ StepDone => \A n \in Pool0to5 : loss_calls'[n].C = results.center
       /\ pc' = "returned" => res'.IMG = IMG]_vars

\* A fit of several outer iterations returned, the last pool sampled around
\* the caller's center.
C16_Witness ==
    /\ pc = "returned" /\ count > 1
    /\ res.IMG = IMG
    /\ \A n \in Pool0to5 : loss_calls[n].C = results.center
    /\ results.center # NoCenter

JustRan(step) ==
    /\ Len(pipeline'.ran) = Len(pipeline.ran) + 1
    /\ pipeline'.ran[Len(pipeline'.ran)] = step
HasRun(step) == \E j \in 1..Len(pipeline.ran) : pipeline.ran[j] = step

\* C17: in the tree pipeline 'branch edgeon' runs after the four other
\* head steps and selects one branch, 'edgeon' if and only if init ellip is
\* strictly above 0.8 and 'standard' otherwise, with an empty results
\* update; the branch selected is never changed; 'isophotefit' runs only on
\* the 'standard' branch and 'edgeonfit' only on the 'edgeon' branch, where
\* it returns the five fit arrays, each of length 100.
C17_TreeBranch ==
    [][/\ JustRan("branch edgeon") =>
            /\ pipeline.ran = <<"background", "psf", "center", "isophoteinit">>
            /\ pipeline'.branch \in {"edgeon", "standard"}
            /\ pipeline'.branch = "edgeon" <=> results.init_ellip > 800
            /\ pipeline'.list = pipeline'.branch
            /\ DOMAIN pipeline'.update = {}
       /\ pipeline.branch # "none" => pipeline'.branch = pipeline.branch
       /\ JustRan("isophotefit") => pipeline.branch = "standard"
       /\ JustRan("edgeonfit") =>
            /\ pipeline.branch = "edgeon"
            /\ DOMAIN pipeline'.update =
                 {"fit ellip", "fit pa", "fit ellip_err", "fit pa_err", "fit R"}
            /\ \A key \in DOMAIN pipeline'.update :
                  Len(pipeline'.update[key]) = 100
       /\ pipeline'.list = "done" =>
            (HasRun("isophotefit") <=> pipeline.branch = "standard")
            /\ (HasRun("edgeonfit") <=> pipeline.branch = "edgeon")]_vars

\* The pipeline finished on the standard branch with init ellip exactly 0.8.
C17_Witness ==
    /\ pipeline.list = "done" /\ pipeline.branch = "standard"
    /\ results.init_ellip = EdgeonLimit
    /\ HasRun("isophotefit") /\ ~HasRun("edgeonfit")

OneStepFrom(e) == {e} \cup {x_to_eps(inv_x_to_eps(e) + de) : de \in {0 - 1, 1}}
OneTurnFrom(a) == {a} \cup {(a + da) % PiUnits : da \in {0 - 1, 1}}

\* C18: a radius step for the index i leaves ellip[j] and pa[j] unchanged
\* for every j # i; the unchanged candidate is a copy of the arrays; every
\* other candidate of the pool equals the arrays at every j # i, and at i
\* is one perturbation away from the arrays themselves, not from another
\* candidate.
C18_StepFrame ==
    [][StepDone =>
         LET i == I[k]
         IN  /\ perturbations'[0].ellip = ellip /\ perturbations'[0].pa = pa
             /\ \A n \in Pool0to5 :
                  /\ Len(perturbations'[n].ellip) = NRadii
                  /\ Len(perturbations'[n].pa) = NRadii
                  /\ perturbations'[n].ellip[i] \in OneStepFrom(ellip[i])
                  /\ perturbations'[n].pa[i] \in OneTurnFrom(pa[i])
                  /\ \A j \in 1..NRadii :
                       j # i => /\ perturbations'[n].ellip[j] = ellip[j]
                                /\ perturbations'[n].pa[j] = pa[j]
             /\ \A j \in 1..NRadii :
                  j # i => ellip'[j] = ellip[j] /\ pa'[j] = pa[j]]_vars

\* The step of the first radius committed a perturbation of both
\* parameters while another radius had been visited before it.
C18_Witness ==
    /\ pc \in {"for", "while"} /\ DOMAIN perturbations = Pool0to5
    /\ best > 0 /\ I[1] # 1
    /\ ellip[1] # perturbations[0].ellip[1]
    /\ pa[1] # perturbations[0].pa[1]
    /\ \A j \in 2..NRadii : ellip[j] = perturbations[0].ellip[j]

\* Radius steps completed since the loop began.
StepsDone ==
    IF pc = "for" THEN (count - 1) * NRadii + (k - 1) ELSE count * NRadii
IsOrder(ord) ==
    /\ Len(ord) = NRadii
    /\ \A j \in 1..NRadii : \E m \in 1..NRadii : ord[m] = j

\* C19: an outer iteration visits every radius index exactly once (I is a
\* permutation, walked from its first to its last entry) and the loop is
\* left only between outer iterations; count_nochange is the number of
\* radius steps since the last commit, at most the number of steps run; so
\* a loop left with count < 300 has kept the unchanged candidate in at least
\* its last 3 x radius_count steps, and every loop left has run at least 3
\* outer iterations.
C19_WholeIterations ==
    [][InLoop =>
         /\ EntersBody => k' = 1 /\ IsOrder(I')
         /\ StepDone => /\ I' = I
                        /\ pc' = "while" <=> k = NRadii
                        /\ pc' = "for" => k' = k + 1
                        /\ count_nochange' =
                             (IF best' > 0 THEN 0 ELSE count_nochange + 1)
         /\ count_nochange <= StepsDone
         /\ pc' = "fitted" =>
              /\ pc = "while" /\ StepsDone = count * NRadii
              /\ count >= 3
              /\ count < MaxCount => count_nochange >= 3 * NRadii]_vars

\* The loop was left before the cap, after more than 3 outer iterations.
C19_Witness ==
    /\ pc = "fitted" /\ count > 3 /\ count < MaxCount
    /\ count_nochange >= 3 * NRadii

AfterScan ==
    /\ \A i \in 1..CollapseScan : ~Drop(ellip, i)
    /\ Drops(LoopEllip) # {} =>
         LET kk == MaxOf(Drops(LoopEllip))
         IN  /\ \A j \in 1..kk : ellip[j] = ellip[kk + 1] /\ pa[j] = pa[kk + 1]
             /\ ellip[kk + 1] = LoopEllip[kk + 1] /\ pa[kk + 1] = LoopPa[kk + 1]

\* C20: the scan detects a drop at i exactly when the arrays the loop left
\* have one there; once it has finished, no adjacent pair among the first
\* five has the transformed ellipticity at i more than 0.5 above that at
\* i+1, and if a drop was detected then ellip[0..k] and pa[0..k] equal
\* ellip[k+1] and pa[k+1], k being the largest index of a detected drop.
C20_NoCollapseLeft ==
    [][ScanStep =>
         /\ Drop(ellip, ci + 1) <=> Drop(LoopEllip, ci + 1)
         /\ ci' = CollapseScan => AfterScan']_vars

\* The scan finished after detecting drops at two indices, the larger below
\* the last one scanned, and the position angles were flattened too.
C20_Witness ==
    /\ ScanDone
    /\ Cardinality(Drops(LoopEllip)) >= 2
    /\ MaxOf(Drops(LoopEllip)) < CollapseScan
    /\ pa[1] # LoopPa[1]
    /\ ellip[1] = LoopEllip[MaxOf(Drops(LoopEllip)) + 1]

\* C21: PSF_IRAF never raises, and what it returns holds 'psf fwhm': the
\* user's value when 'ap_set_psf' is given, and otherwise the star finder's
\* width or the guess.
C21_PsfAlwaysReturns ==
    /\ psf.pc # "raised"
    /\ psf.pc = "returned" =>
         /\ "psf fwhm" \in DOMAIN psf.ret.update
         /\ "ap_set_psf" \in DOMAIN psf.locals["options"] =>
              psf.ret.update["psf fwhm"] = psf.locals["options"]["ap_set_psf"]

GridMade == axial.pc \in {"grid", "gridded"}
GridOk ==
    /\ axial.R[1] = 0
    /\ \A j \in 1..(Len(axial.R) - 1) :
         /\ axial.R[j + 1] >= axial.R[j] + RUnit
         /\ axial.R[j] < axial.Rproflim
    /\ (Len(axial.R) - 1) * RUnit < Max2(0, axial.Rproflim) + RUnit
    /\ axial.pc = "gridded" => Last(axial.R) >= axial.Rproflim
\* How far the last point is below the limit, and a rank that counts that
\* distance and the exit of the loop.
GridGap == Max2(0, axial.Rproflim - Last(axial.R))
GridRank == IF axial.pc = "grid" THEN GridGap + 1 ELSE 0

\* C22: the radial grid starts at R = 0 and every step is at least 1 pixel,
\* whatever the style and the configured scale, so it is strictly
\* increasing; a point is appended only while the last one is below the
\* profile limit, every pass brings the last point at least 1 pixel closer
\* to the limit, so the loop ends, and it ends at the first point that is
\* >= the limit.
C22_RadialGrid ==
    [][(GridMade' => GridOk')
       /\ (axial.pc = "grid" =>
             /\ axial'.Rproflim = axial.Rproflim
             /\ SubSeq(axial'.R, 1, Len(axial.R)) = axial.R
             /\ Len(axial'.R) \in {Len(axial.R), Len(axial.R) + 1}
             /\ Len(axial'.R) = Len(axial.R) + 1 <=> Last(axial.R) < axial.Rproflim
             /\ axial'.pc = "gridded" <=> Last(axial.R) >= axial.Rproflim
             /\ GridRank' < GridRank
             /\ Len(axial'.R) = Len(axial.R) + 1 =>
                  GridGap' = 0 \/ GridGap' <= GridGap - RUnit)]_vars

\* A geometric grid is complete: its step from R = 0 was 1 pixel, where the
\* style asks for 0, and a later step was larger than 1 pixel.
C22_Witness ==
    /\ axial.pc = "gridded"
    /\ ~("ap_samplestyle" \in DOMAIN axial.options
           /\ axial.options["ap_samplestyle"] = "linear")
    /\ Len(axial.R) >= 4
    /\ axial.R[2] = RUnit
    /\ GridStep(axial.results, axial.options, 0) = 0
    /\ \E j \in 2..(Len(axial.R) - 1) : axial.R[j + 1] > axial.R[j] + RUnit

=============================================================================
